---- MODULE Spec2Model ----
(***************************************************************************)
(* Model of streamlit_app.py: the CSV sanitiser, the amount and date       *)
(* normalisers, the row parser and the cached render loop of main().       *)
(* Text is a sequence of one-character strings.                            *)
(***************************************************************************)
EXTENDS Integers, Sequences, FiniteSets, TLC

VARIABLES
    arg,            \* input handed to the pure function under test
    ret,            \* its result
    op,             \* which function has been applied ("none" before)
    session_state,  \* st.session_state: cached_key, cached_csv, cached_df, cached_year
    tmp_files,      \* the temporary files that exist on disk
    page,           \* what the last run of main() did and showed
    cache_src       \* the upload whose processing filled the cache

hvars == <<arg, ret, op>>
svars == <<session_state, tmp_files, page, cache_src>>
vars == <<arg, ret, op, session_state, tmp_files, page, cache_src>>

(***************************************************************************)
(* Bounds                                                                  *)
(***************************************************************************)
MaxNumLen == 3      \* longest numeral D handed to normalise_amount
MaxTmpFiles == 2    \* names tempfile can hand out before the disk is full

(***************************************************************************)
(* Characters and str helpers                                              *)
(***************************************************************************)
Digit == {"0", "1", "2", "3", "4", "5", "6", "7", "8", "9"}

\* str.isspace() / regex \s, restricted to the characters the model uses
Space == {" ", "\t", "\n", "\r"}

RECURSIVE LStrip(_)
LStrip(s) == IF s # <<>> /\ Head(s) \in Space THEN LStrip(Tail(s)) ELSE s

RECURSIVE RStrip(_)
RStrip(s) ==
    IF s # <<>> /\ s[Len(s)] \in Space THEN RStrip(SubSeq(s, 1, Len(s) - 1)) ELSE s

\* str.strip()
Strip(s) == RStrip(LStrip(s))

\* str.replace(c, "") for a single character c
Remove(s, c) == SelectSeq(s, LAMBDA x: x # c)

AllIn(s, lo, hi, class) == \A i \in lo..hi : s[i] \in class

(***************************************************************************)
(* normalise_amount                                                        *)
(***************************************************************************)
\* PAREN_RE = ^\(\s*\$?([0-9,.]+)\s*\)$ ; the positions (j, k) of group 1.
\* d is 1 when the '$' is present.
PAREN_RE_groups(txt) ==
    { <<j, k>> \in (1..Len(txt)) \X (1..Len(txt)) :
        /\ Len(txt) >= 3
        /\ txt[1] = "("
        /\ txt[Len(txt)] = ")"
        /\ j <= k
        /\ k < Len(txt)
        /\ AllIn(txt, j, k, Digit \cup {",", "."})
        /\ AllIn(txt, k + 1, Len(txt) - 1, Space)
        /\ \E d \in {0, 1} :
              /\ j - d >= 2
              /\ d = 1 => txt[j - 1] = "$"
              /\ AllIn(txt, 2, j - d - 1, Space) }

PAREN_RE_match(txt) == PAREN_RE_groups(txt) # {}

\* group(1) of the match the regex engine finds (greedy: the longest group)
PAREN_RE_group1(txt) ==
    LET g == CHOOSE p \in PAREN_RE_groups(txt) :
                 \A q \in PAREN_RE_groups(txt) : q[2] - q[1] <= p[2] - p[1]
    IN  SubSeq(txt, g[1], g[2])

\* normalise_amount without the removal of the thousands separators
normalise_amount_commas(raw) ==
    LET txt == Strip(Remove(raw, "$"))
    IN  IF PAREN_RE_match(txt)
        THEN <<"-">> \o PAREN_RE_group1(txt)
        ELSE IF txt # <<>> /\ txt[Len(txt)] = "-"
             THEN <<"-">> \o Strip(SubSeq(txt, 1, Len(txt) - 1))
             ELSE txt

normalise_amount(raw) ==
    LET txt == Strip(Remove(Remove(raw, ","), "$"))
    IN  IF PAREN_RE_match(txt)
        THEN <<"-">> \o PAREN_RE_group1(txt)
        ELSE IF txt # <<>> /\ txt[Len(txt)] = "-"
             THEN <<"-">> \o Strip(SubSeq(txt, 1, Len(txt) - 1))
             ELSE txt

(***************************************************************************)
(* clean_csv_text                                                          *)
(***************************************************************************)
\* the backtick and the characters outside ASCII are written by their code point
BQUOTE == "u0060"    \* the backtick
LDQUO == "u201C"
RDQUO == "u201D"
LSQUO == "u2018"
RSQUO == "u2019"

UpperSeq == <<"A", "B", "C", "D", "E", "F", "G", "H", "I", "J", "K", "L", "M",
              "N", "O", "P", "Q", "R", "S", "T", "U", "V", "W", "X", "Y", "Z">>
LowerSeq == <<"a", "b", "c", "d", "e", "f", "g", "h", "i", "j", "k", "l", "m",
              "n", "o", "p", "q", "r", "s", "t", "u", "v", "w", "x", "y", "z">>

\* str.lower() on one character
LowerChar(c) ==
    IF \E i \in 1..26 : UpperSeq[i] = c
    THEN LowerSeq[CHOOSE i \in 1..26 : UpperSeq[i] = c]
    ELSE c

\* str.lower()
Lower(s) == [i \in 1..Len(s) |-> LowerChar(s[i])]

\* s[from..] starts with the literal lit, ignoring case (re.I)
LitAt(s, from, lit) ==
    /\ from + Len(lit) - 1 <= Len(s)
    /\ \A i \in 1..Len(lit) : LowerChar(s[from + i - 1]) = lit[i]

\* the first position of s that holds a character of class, 0 when none does
FirstIn(s, class) ==
    IF \E i \in 1..Len(s) : s[i] \in class
    THEN CHOOSE i \in 1..Len(s) : s[i] \in class /\ \A m \in 1..(i - 1) : s[m] \notin class
    ELSE 0

\* str.splitlines(): breaks at \n, \r and \r\n; no empty last line
RECURSIVE SplitLines(_)
SplitLines(s) ==
    LET brk == FirstIn(s, {"\n", "\r"})
        len == IF s[brk] = "\r" /\ brk < Len(s) /\ s[brk + 1] = "\n" THEN 2 ELSE 1
    IN  IF s = <<>> THEN <<>>
        ELSE IF brk = 0 THEN <<s>>
        ELSE <<SubSeq(s, 1, brk - 1)>> \o SplitLines(SubSeq(s, brk + len, Len(s)))

\* sep.join(lines)
RECURSIVE Join(_, _)
Join(lines, sep) ==
    IF lines = <<>> THEN <<>>
    ELSE IF Len(lines) = 1 THEN lines[1]
    ELSE lines[1] \o sep \o Join(Tail(lines), sep)

FenceChars == {BQUOTE, "'", "\""}
FencePrefixClass == Space \cup {BQUOTE, "'", "\"", LDQUO, RDQUO, LSQUO, RSQUO}

\* \s*(?:csv)?\s*$ matched from position from
FenceTail(l, from) ==
    \E a \in from..(Len(l) + 1) :
        /\ AllIn(l, from, a - 1, Space)
        /\ \/ a = Len(l) + 1
           \/ /\ LitAt(l, a, <<"c", "s", "v">>)
              /\ AllIn(l, a + 3, Len(l), Space)

\* FENCE_RE with the run of three fence characters made mandatory
FENCE_RE_match_required(l) ==
    \E p \in 0..5 :
        /\ p <= Len(l)
        /\ AllIn(l, 1, p, FencePrefixClass)
        /\ \E f \in 3..(Len(l) - p) :
              /\ l[p + 1] \in FenceChars
              /\ \A i \in (p + 1)..(p + f) : l[i] = l[p + 1]
              /\ FenceTail(l, p + f + 1)

\* FENCE_RE = ^[\s\x60'"....]{0,5}(?:\x60{3,}|'{3,}|"{3,})?\s*(?:csv)?\s*$ , re.I
FENCE_RE_match(l) ==
    \E p \in 0..5 :
        /\ p <= Len(l)
        /\ AllIn(l, 1, p, FencePrefixClass)
        /\ \/ FenceTail(l, p + 1)
           \/ \E f \in 3..(Len(l) - p) :
                 /\ l[p + 1] \in FenceChars
                 /\ \A i \in (p + 1)..(p + f) : l[i] = l[p + 1]
                 /\ FenceTail(l, p + f + 1)

\* COMMENT_RE = ^\s*(here\s+is|note:) , re.I
COMMENT_RE_match(l) ==
    \E a \in 1..(Len(l) + 1) :
        /\ AllIn(l, 1, a - 1, Space)
        /\ \/ LitAt(l, a, <<"n", "o", "t", "e", ":">>)
           \/ /\ LitAt(l, a, <<"h", "e", "r", "e">>)
              /\ \E b \in (a + 5)..Len(l) :
                    /\ AllIn(l, a + 4, b - 1, Space)
                    /\ LitAt(l, b, <<"i", "s">>)

\* the filter of clean_csv_text
KeepLine(l) == Strip(l) # <<>> /\ ~(FENCE_RE_match(l) \/ COMMENT_RE_match(l))

\* clean_csv_text joining the kept lines with "" instead of "\n"
clean_csv_text_nosep(txt) == Join(SelectSeq(SplitLines(txt), KeepLine), <<>>)

clean_csv_text(txt) == Join(SelectSeq(SplitLines(txt), KeepLine), <<"\n">>)

(***************************************************************************)
(* normalise_date                                                          *)
(***************************************************************************)
DigitSeq == <<"0", "1", "2", "3", "4", "5", "6", "7", "8", "9">>

DigitVal(c) == (CHOOSE i \in 1..10 : DigitSeq[i] = c) - 1

\* int() of a digit string
RECURSIVE ToNat(_)
ToNat(ds) ==
    IF ds = <<>> THEN 0
    ELSE 10 * ToNat(SubSeq(ds, 1, Len(ds) - 1)) + DigitVal(ds[Len(ds)])

\* a number as a zero-padded digit string of at least width characters
RECURSIVE ToDigits(_, _)
ToDigits(n, width) ==
    IF n < 10 /\ width <= 1 THEN <<DigitSeq[n + 1]>>
    ELSE Append(ToDigits(n \div 10, width - 1), DigitSeq[(n % 10) + 1])

\* the year of the clock dateutil reads to place two-digit years
ClockYear == 2026

\* re.sub(r"[u2011 u2013 u2014 u2212]", "/", txt)
DashChars == {"u2011", "u2013", "u2014", "u2212"}
DashesToSlash(txt) == [i \in 1..Len(txt) |-> IF txt[i] \in DashChars THEN "/" ELSE txt[i]]

\* str.split(sep) for a single character sep
RECURSIVE SplitOn(_, _)
SplitOn(s, sep) ==
    IF \E i \in 1..Len(s) : s[i] = sep
    THEN LET i == CHOOSE k \in 1..Len(s) :
                      s[k] = sep /\ \A m \in 1..(k - 1) : s[m] # sep
         IN  <<SubSeq(s, 1, i - 1)>> \o SplitOn(SubSeq(s, i + 1, Len(s)), sep)
    ELSE <<s>>

IsLeap(y) == (y % 4 = 0 /\ y % 100 # 0) \/ y % 400 = 0

DaysIn(y, m) ==
    IF m = 2 THEN (IF IsLeap(y) THEN 29 ELSE 28)
    ELSE IF m \in {4, 6, 9, 11} THEN 30 ELSE 31

NoDate == [ok |-> FALSE, year |-> 0, month |-> 0, day |-> 0]

\* dateutil's convertyear: a year written with one or two digits is placed
\* within fifty years of the clock
ConvertYear(tok) ==
    LET y == ToNat(tok)
        c == y + (ClockYear \div 100) * 100
    IN  IF Len(tok) > 2 THEN y
        ELSE IF c >= ClockYear + 50 THEN c - 100
        ELSE IF c < ClockYear - 50 THEN c + 100
        ELSE c

\* default.replace(year, month, day): ValueError on a date that does not exist
BuildDate(y, m, d) ==
    IF m \in 1..12 /\ y >= 1 /\ d >= 1 /\ d <= DaysIn(y, m)
    THEN [ok |-> TRUE, year |-> y, month |-> m, day |-> d]
    ELSE NoDate

\* parser.parse(txt, dayfirst=False, fuzzy=True, default=<default_year>-01-01)
\* on the texts the model hands it: two or three numbers of one, two or four
\* digits joined by '/', read as month/day[/year] (year/month/day when the
\* first number is a year, day/month/year when the first exceeds 12); a text
\* without any digit holds no date. Anything else is outside the model.
dateutil_parse(txt, default_year) ==
    LET toks == SplitOn(txt, "/")
        numeric == /\ Len(toks) \in {2, 3}
                   /\ \A i \in 1..Len(toks) :
                         /\ Len(toks[i]) \in {1, 2, 4}
                         /\ AllIn(toks[i], 1, Len(toks[i]), Digit)
        n(i) == ToNat(toks[i])
        isYear(i) == Len(toks[i]) > 2 \/ n(i) > 31
    IN  IF ~numeric THEN NoDate
        ELSE IF Len(toks) = 2
             THEN IF isYear(1) THEN BuildDate(ConvertYear(toks[1]), n(2), 1)
                  ELSE IF isYear(2) THEN BuildDate(ConvertYear(toks[2]), n(1), 1)
                  ELSE BuildDate(default_year, n(1), n(2))
        ELSE IF Cardinality({i \in 1..3 : Len(toks[i]) > 2}) > 1 THEN NoDate
        ELSE IF isYear(1) THEN BuildDate(ConvertYear(toks[1]), n(2), n(3))
        ELSE IF n(1) > 12 THEN BuildDate(ConvertYear(toks[3]), n(2), n(1))
        ELSE BuildDate(ConvertYear(toks[3]), n(1), n(2))

\* dt.strftime("%m/%d/%Y")
strftime(dt) ==
    ToDigits(dt.month, 2) \o <<"/">> \o ToDigits(dt.day, 2) \o <<"/">> \o ToDigits(dt.year, 4)

normalise_date(raw, default_year) ==
    LET txt == Strip(raw)
    IN  IF txt = <<>> THEN <<>>
        ELSE LET dt == dateutil_parse(DashesToSlash(txt), default_year)
             IN  IF dt.ok THEN strftime(dt) ELSE <<>>

(***************************************************************************)
(* csv.reader(StringIO(csv_text), delimiter=",", quotechar='"')             *)
(***************************************************************************)
EOL == "EOL"    \* the end-of-line signal the reader gets after each line

\* iterating StringIO(csv_text): the lines, each with the \n that ends it
RECURSIVE IoLines(_)
IoLines(s) ==
    LET brk == FirstIn(s, {"\n"})
    IN  IF s = <<>> THEN <<>>
        ELSE IF brk = 0 THEN <<s>>
        ELSE <<SubSeq(s, 1, brk)>> \o IoLines(SubSeq(s, brk + 1, Len(s)))

ReaderStart == [state |-> "START_RECORD", fields |-> <<>>, field |-> <<>>, error |-> FALSE]

SaveField(r, next) == [r EXCEPT !.fields = Append(r.fields, r.field), !.field = <<>>, !.state = next]

AddChar(r, c, next) == [r EXCEPT !.field = Append(r.field, c), !.state = next]

AfterLine(c) == IF c = EOL THEN "START_RECORD" ELSE "EAT_CRNL"

\* parse_process_char of the reader, default dialect (doublequote, not strict)
ProcessChar(r, c) ==
    LET nl == c \in {"\n", "\r"}
        startField ==
            IF nl \/ c = EOL THEN SaveField(r, AfterLine(c))
            ELSE IF c = "\"" THEN [r EXCEPT !.state = "IN_QUOTED_FIELD"]
            ELSE IF c = "," THEN SaveField(r, "START_FIELD")
            ELSE AddChar(r, c, "IN_FIELD")
    IN  CASE r.state = "START_RECORD" ->
                IF c = EOL THEN r
                ELSE IF nl THEN [r EXCEPT !.state = "EAT_CRNL"]
                ELSE startField
          [] r.state = "START_FIELD" -> startField
          [] r.state = "IN_FIELD" ->
                IF nl \/ c = EOL THEN SaveField(r, AfterLine(c))
                ELSE IF c = "," THEN SaveField(r, "START_FIELD")
                ELSE AddChar(r, c, "IN_FIELD")
          [] r.state = "IN_QUOTED_FIELD" ->
                IF c = EOL THEN r
                ELSE IF c = "\"" THEN [r EXCEPT !.state = "QUOTE_IN_QUOTED_FIELD"]
                ELSE AddChar(r, c, "IN_QUOTED_FIELD")
          [] r.state = "QUOTE_IN_QUOTED_FIELD" ->
                IF c = "\"" THEN AddChar(r, c, "IN_QUOTED_FIELD")
                ELSE IF c = "," THEN SaveField(r, "START_FIELD")
                ELSE IF nl \/ c = EOL THEN SaveField(r, AfterLine(c))
                ELSE AddChar(r, c, "IN_FIELD")
          [] r.state = "EAT_CRNL" ->
                IF nl THEN r
                ELSE IF c = EOL THEN [r EXCEPT !.state = "START_RECORD"]
                ELSE [r EXCEPT !.error = TRUE]

\* the characters of one line go through parse_process_char in turn
RECURSIVE ProcessChars(_, _, _)
ProcessChars(r, line, i) ==
    IF i > Len(line) \/ r.error THEN r
    ELSE ProcessChars(ProcessChar(r, line[i]), line, i + 1)

\* Reader_iternext over the lines: a record is yielded when a line ends in
\* START_RECORD, a record still open at the end of the input is yielded too
RECURSIVE ReadLines(_, _, _, _)
ReadLines(lines, k, r, recs) ==
    IF k > Len(lines)
    THEN IF r.field # <<>> \/ r.state = "IN_QUOTED_FIELD"
         THEN [error |-> FALSE, records |-> Append(recs, Append(r.fields, r.field))]
         ELSE [error |-> FALSE, records |-> recs]
    ELSE LET chars == ProcessChars(r, lines[k], 1)
             n     == IF chars.error THEN chars ELSE ProcessChar(chars, EOL)
         IN  IF n.error THEN [error |-> TRUE, records |-> recs]
             ELSE IF n.state = "START_RECORD"
                  THEN ReadLines(lines, k + 1, ReaderStart, Append(recs, n.fields))
                  ELSE ReadLines(lines, k + 1, n, recs)

\* the records the reader yields; error: csv.Error was raised
\* ("new-line character seen in unquoted field")
csv_reader(csv_text) == ReadLines(IoLines(csv_text), 1, ReaderStart, <<>>)

(***************************************************************************)
(* robust_parse                                                            *)
(***************************************************************************)
HEADER_PREFIXES ==
    { <<"d", "a", "t", "e">>,
      <<"d", "e", "s", "c", "r", "i", "p", "t", "i", "o", "n">>,
      <<"a", "m", "o", "u", "n", "t">>,
      <<"h", "e", "r", "e">>,
      <<"n", "o", "t", "e">>,
      <<"c", "s", "v">> }

\* str.startswith(tuple)
StartsWithAny(s, prefixes) ==
    \E pre \in prefixes : Len(s) >= Len(pre) /\ SubSeq(s, 1, Len(pre)) = pre

\* SkipRecord with the field-count test off by one
SkipRecord_two(row) ==
    \/ row = <<>>
    \/ StartsWithAny(Lower(Strip(row[1])), HEADER_PREFIXES)
    \/ Len(row) < 2

\* the two "continue" tests on a record before its fields are taken
SkipRecord(row) ==
    \/ row = <<>>
    \/ StartsWithAny(Lower(Strip(row[1])), HEADER_PREFIXES)
    \/ Len(row) < 3

\* ParseRecord taking the amount from the third field, not the last
ParseRecord_third(row, default_year) ==
    IF SkipRecord(row) THEN <<>>
    ELSE LET date_fixed == normalise_date(Strip(row[1]), default_year)
         IN  IF date_fixed = <<>> THEN <<>>
             ELSE << [Date |-> date_fixed,
                      Description |-> Strip(row[2]),
                      Amount |-> normalise_amount(Strip(row[3]))] >>

\* the body of the loop for one record: the rows it appends (none or one)
ParseRecord(row, default_year) ==
    IF SkipRecord(row) THEN <<>>
    ELSE LET date_raw    == Strip(row[1])
             amount_raw  == Strip(row[Len(row)])
             description == Strip(Join(SubSeq(row, 2, Len(row) - 1), <<",">>))
             date_fixed  == normalise_date(date_raw, default_year)
         IN  IF date_fixed = <<>> THEN <<>>
             ELSE << [Date |-> date_fixed,
                      Description |-> description,
                      Amount |-> normalise_amount(amount_raw)] >>

RECURSIVE ParseRecords(_, _)
ParseRecords(records, default_year) ==
    IF records = <<>> THEN <<>>
    ELSE ParseRecord(Head(records), default_year) \o ParseRecords(Tail(records), default_year)

\* raised: an exception left robust_parse; rows: the rows of the DataFrame
robust_parse(csv_text, default_year) ==
    LET reader == csv_reader(clean_csv_text(csv_text))
    IN  IF reader.error THEN [raised |-> TRUE, rows |-> <<>>]
        ELSE [raised |-> FALSE, rows |-> ParseRecords(reader.records, default_year)]

(***************************************************************************)
(* main(): one run of the script per render, with its session cache        *)
(***************************************************************************)
\* absent values: <<>> for a text, a key or a frame, 0 for a year
NoUpload == [name |-> <<>>, size |-> 0, type |-> <<>>]

RAISE == <<"raise">>    \* an outcome of a call that raised instead of returning
NoEdit == <<"no edit">> \* the user has typed nothing over the text area

\* file_key: f"{upl.name}_{upl.size}_{upl.type}"
file_key(upl) == upl.name \o <<"_">> \o ToDigits(upl.size, 1) \o <<"_">> \o upl.type

WordChars == Digit \cup {"_"} \cup {UpperSeq[i] : i \in 1..26} \cup {LowerSeq[i] : i \in 1..26}

\* re.search(r"\b(20\d{2})\b", year_source): the positions where it matches
YearMatches(src) ==
    { i \in 1..(Len(src) - 3) :
        /\ src[i] = "2"
        /\ src[i + 1] = "0"
        /\ src[i + 2] \in Digit
        /\ src[i + 3] \in Digit
        /\ (i = 1 \/ src[i - 1] \notin WordChars)
        /\ (i + 3 = Len(src) \/ src[i + 4] \notin WordChars) }

\* int(year_match.group(1)) if year_match else pd.Timestamp.now().year
DefaultYear(src, now) ==
    IF YearMatches(src) = {} THEN now
    ELSE LET i == CHOOSE k \in YearMatches(src) : \A m \in YearMatches(src) : k <= m
         IN  ToNat(SubSeq(src, i, i + 3))

\* gpt_from_text / gpt_from_image: the model's reply, stripped, or the exception
gpt_reply(response) == IF response = RAISE THEN RAISE ELSE Strip(response)

\* image_ocr: one call per page, the replies joined by \n; raises when a call does
image_ocr(responses) ==
    IF \E i \in 1..Len(responses) : responses[i] = RAISE THEN RAISE
    ELSE Join([i \in 1..Len(responses) |-> gpt_reply(responses[i])], <<"\n">>)

\* csv.writer, QUOTE_MINIMAL: a field is quoted when it holds the delimiter,
\* the quote character or the line terminator; quotes inside are doubled
RECURSIVE DoubleQuotes(_)
DoubleQuotes(f) ==
    IF f = <<>> THEN <<>>
    ELSE (IF Head(f) = "\"" THEN <<"\"", "\"">> ELSE <<Head(f)>>) \o DoubleQuotes(Tail(f))

WriteField(f) ==
    IF \E i \in 1..Len(f) : f[i] \in {",", "\"", "\n"}
    THEN <<"\"">> \o DoubleQuotes(f) \o <<"\"">>
    ELSE f

WriteRow(fields) == Join([i \in 1..Len(fields) |-> WriteField(fields[i])], <<",">>) \o <<"\n">>

ColumnNames == << <<"D", "a", "t", "e">>,
                  <<"D", "e", "s", "c", "r", "i", "p", "t", "i", "o", "n">>,
                  <<"A", "m", "o", "u", "n", "t">> >>

RECURSIVE WriteRows(_)
WriteRows(rows) ==
    IF rows = <<>> THEN <<>>
    ELSE WriteRow(<<Head(rows).Date, Head(rows).Description, Head(rows).Amount>>)
            \o WriteRows(Tail(rows))

\* df.to_csv(index=False).encode("utf-8"), on the ASCII text of the model
to_csv(rows) == WriteRow(ColumnNames) \o WriteRows(rows)

\* CacheMiss testing only whether the cache holds anything
CacheMiss_absent(ss, key) == ss.cached_key = <<>>

\* line 128: the cache holds nothing for this upload
CacheMiss(ss, key) == ss.cached_key # key

\* Preview showing the cached frame instead of parsing the edited text
Preview_cached(edited, df, default_year) == [raised |-> FALSE, rows |-> df]

\* line 164: the frame shown and exported
Preview(edited, df, default_year) == robust_parse(edited, default_year)

NoPage ==
    [outcome |-> "none", upl |-> NoUpload, extracted |-> FALSE, failed |-> FALSE,
     pdf_path |-> 0, raw_csv |-> <<>>, default_year |-> 0, edit |-> NoEdit, edited |-> <<>>,
     df_display |-> <<>>, download |-> <<>>, messages |-> <<>>]

\* the part of main() from st.subheader("Raw CSV (editable)") on: the text area
\* holds the sanitised raw text unless the user has typed edit over it
EditArea(pg, raw_csv, df, default_year, edit) ==
    LET edited     == IF edit = NoEdit THEN clean_csv_text(raw_csv) ELSE edit
        parsed     == Preview(edited, df, default_year)
        shown      == [pg EXCEPT !.raw_csv = raw_csv, !.default_year = default_year,
                                 !.edit = edit, !.edited = edited]
    IN  IF parsed.raised THEN [shown EXCEPT !.outcome = "raised"]
        ELSE IF parsed.rows = <<>>
             THEN [shown EXCEPT !.outcome = "no_rows",
                                !.messages = Append(pg.messages, "No transaction rows detected")]
        ELSE [shown EXCEPT !.outcome = "download",
                           !.df_display = parsed.rows,
                           !.download = to_csv(parsed.rows)]

\* tempfile.NamedTemporaryFile: a name no file on disk has
TmpNames == 1..MaxTmpFiles
NewTmpName == CHOOSE n \in TmpNames \ tmp_files : \A m \in TmpNames \ tmp_files : n <= m

\* main() with st.file_uploader returning upl; text is the outcome of
\* text_layer, responses the replies of the model (one, or one per page), now
\* the year of the clock, edit what the user typed in the text area
main(upl, text, responses, now, edit) ==
    LET key      == file_key(upl)
        pdf_path == NewTmpName
        start    == [NoPage EXCEPT !.upl = upl]
        ocr      == Strip(text) = <<>>
        raw_csv  == IF ocr THEN image_ocr(responses) ELSE gpt_reply(responses[1])
        year_source  == IF ocr THEN raw_csv ELSE text
        default_year == DefaultYear(year_source, now)
        infos    == IF ocr
                    THEN [i \in 1..(IF raw_csv = RAISE
                                    THEN CHOOSE k \in 1..Len(responses) :
                                            /\ responses[k] = RAISE
                                            /\ \A m \in 1..(k - 1) : responses[m] # RAISE
                                    ELSE Len(responses)) |-> "OCR page"]
                    ELSE <<>>
        processing == [start EXCEPT !.extracted = TRUE, !.pdf_path = pdf_path]
        df       == robust_parse(raw_csv, default_year)
    IN  /\ IF upl = NoUpload
           THEN /\ page' = [start EXCEPT !.outcome = "no_upload",
                                         !.messages = <<"Upload a PDF to begin.">>]
                /\ UNCHANGED <<session_state, tmp_files, cache_src>>
           ELSE IF CacheMiss(session_state, key)
           THEN IF text = RAISE
                THEN /\ page' = [processing EXCEPT !.outcome = "raised"]
                     /\ tmp_files' = tmp_files \cup {pdf_path}
                     /\ UNCHANGED <<session_state, cache_src>>
                ELSE IF raw_csv = RAISE
                THEN /\ page' = [processing EXCEPT !.outcome = "raised", !.failed = TRUE,
                                                   !.messages = infos]
                     /\ tmp_files' = tmp_files \cup {pdf_path}
                     /\ UNCHANGED <<session_state, cache_src>>
                ELSE IF df.raised
                THEN /\ page' = [processing EXCEPT !.outcome = "raised", !.messages = infos]
                     /\ tmp_files' = (tmp_files \cup {pdf_path}) \ {pdf_path}
                     /\ UNCHANGED <<session_state, cache_src>>
                ELSE /\ tmp_files' = (tmp_files \cup {pdf_path}) \ {pdf_path}
                     /\ session_state' = [cached_key |-> key, cached_csv |-> raw_csv,
                                          cached_df |-> df.rows, cached_year |-> default_year]
                     /\ cache_src' = upl
                     /\ page' = EditArea([processing EXCEPT !.messages = infos],
                                         raw_csv, df.rows, default_year, NoEdit)
           ELSE /\ page' = EditArea(start, session_state.cached_csv, session_state.cached_df,
                                    session_state.cached_year, edit)
                /\ UNCHANGED <<session_state, tmp_files, cache_src>>

(***************************************************************************)
(* The session: the uploads, files and replies the renders draw from       *)
(***************************************************************************)
MaxPages == 2       \* pages of a scanned upload

Uploads ==
    { [name |-> <<"a">>, size |-> 7, type |-> <<"p", "d", "f">>],
      [name |-> <<"a">>, size |-> 12, type |-> <<"p", "d", "f">>] }

\* text layers: none (a scan), one with a year, one without
TextLayers ==
    { <<>>,
      <<"S", "t", "a", "t", "e", "m", "e", "n", "t", " ", "2", "0", "2", "4", "\n", "0", "3", "/", "1", "5", " ", "T", "e", "a", " ", "3", ".", "0", "0">>,
      <<"S", "t", "a", "t", "e", "m", "e", "n", "t", " ", "0", "3", "/", "1", "5", " ", "T", "e", "a", " ", "3", ".", "0", "0", " ", "a", "2", "0", "2", "3">> }

\* replies of the model: a fenced CSV, commentary without a usable row
Responses ==
    { <<"u0060", "u0060", "u0060", "c", "s", "v", "\n", "D", "a", "t", "e", ",", "D", "e", "s", "c", "r", "i", "p", "t", "i", "o", "n", ",", "A", "m", "o", "u", "n", "t", "\n", "0", "3", "/", "0", "1", "/", "2", "0", "2", "3", ",", "S", "h", "o", "p", ",", "-", "4", "5", ".", "2", "3", "\n", "(", "i", "n", "v", "a", "l", "i", "d", " ", "l", "i", "n", "e", ")", "\n", "0", "3", "/", "1", "5", ",", "R", "e", "f", "u", "n", "d", ",", "(", "1", "0", ".", "0", "0", ")", "\n", "u0060", "u0060", "u0060", "\n">>,
      <<"H", "e", "r", "e", " ", "i", "s", " ", "t", "h", "e", " ", "C", "S", "V", ":", "\n", "x", "x", ",", "T", "e", "a", ",", "3", ".", "0", "0">> }

\* what the user types over the text area
Edits ==
    { <<"0", "1", "/", "0", "4", "/", "2", "0", "2", "3", ",", "\"", "C", "o", "f", "f", "e", "e", ",", " ", "T", "e", "a", "\"", ",", "4", ".", "5", "0", "\n", "0", "3", "/", "1", "5", ",", "\"", "s", "a", "y", " ", "\"", "\"", "h", "i", "\"", "\"", "\"", ",", "(", "2", ")">>,
      <<"n", "o", " ", "r", "o", "w", "s", " ", "h", "e", "r", "e">> }

NowYears == {2026}

SessionStart ==
    /\ session_state = [cached_key |-> <<>>, cached_csv |-> <<>>, cached_df |-> <<>>,
                        cached_year |-> 0]
    /\ tmp_files = {}
    /\ page = NoPage
    /\ cache_src = NoUpload

HarnessIdle ==
    /\ arg = <<>>
    /\ ret = <<>>
    /\ op = "none"

Init == SessionStart /\ HarnessIdle

\* a render without an upload
RenderEmpty ==
    /\ main(NoUpload, <<>>, <<>>, 2026, NoEdit)
    /\ UNCHANGED hvars

\* a render with an upload: a new one is processed, the cached one is shown
\* again, possibly with the user's edit
RenderUpload ==
    /\ \E upl \in Uploads, now \in NowYears :
          IF CacheMiss(session_state, file_key(upl))
          THEN /\ tmp_files # TmpNames
               /\ \E text \in TextLayers \cup {RAISE}, n \in 1..MaxPages :
                    \E responses \in [1..n -> Responses \cup {RAISE}] :
                        /\ (text = RAISE \/ Strip(text) # <<>>) => n = 1
                        /\ text = RAISE => responses[1] = RAISE
                        /\ main(upl, text, responses, now, NoEdit)
          ELSE \E edit \in Edits \cup {NoEdit} :
                  main(upl, <<>>, <<>>, now, edit)
    /\ UNCHANGED hvars

Next == RenderEmpty \/ RenderUpload

Spec == Init /\ [][Next]_vars

\* the (name, size, declared type) of an upload
C7_Fingerprint(u) == <<u.name, u.size, u.type>>

C7_Step ==
    page'.upl # NoUpload =>
        /\ page'.extracted <=> C7_Fingerprint(page'.upl) # C7_Fingerprint(cache_src)
        /\ ~page'.extracted =>
              /\ session_state' = session_state
              /\ page'.raw_csv = session_state.cached_csv
              /\ page'.default_year = session_state.cached_year
        /\ (page'.extracted /\ page'.outcome # "raised") =>
              /\ cache_src' = page'.upl
              /\ session_state' =
                    [cached_key |-> file_key(page'.upl),
                     cached_csv |-> page'.raw_csv,
                     cached_df |-> robust_parse(page'.raw_csv, page'.default_year).rows,
                     cached_year |-> page'.default_year]

\* C7: on a render with an upload the extraction step runs iff the upload's
\* fingerprint differs from the cached one; otherwise the cached raw text and
\* year are reused and the cache is left alone; a successful processing leaves
\* the key, raw text, rows and year of that upload as the only cache entry.
C7_CacheDiscipline == [][C7_Step]_vars

C7_Witness ==
    /\ page.upl # NoUpload
    /\ page.upl = cache_src
    /\ ~page.extracted
    /\ page.outcome = "download"
    /\ page.raw_csv = session_state.cached_csv

\* C8: when the call to the model raises, the failure is reported as a message
\* and processing ends with empty raw text and no rows instead of an unhandled
\* error.
C8_FailureIsNotFatal ==
    page.failed =>
        /\ page.outcome # "raised"
        /\ page.messages # <<>>
        /\ page.raw_csv = <<>>
        /\ page.df_display = <<>>

\* C9: once a render has ended, the temporary copy of the upload it created is
\* gone, whether extraction succeeded or raised.
C9_TempFileDeleted == tmp_files = {}

RowFields(rows) ==
    [k \in 1..Len(rows) |-> <<rows[k].Date, rows[k].Description, rows[k].Amount>>]

C10_Shown ==
    page.outcome \in {"no_rows", "download"} =>
        LET parsed == robust_parse(page.edited, page.default_year)
        IN  /\ ~parsed.raised
            /\ page.default_year = session_state.cached_year
            /\ (parsed.rows = <<>>) <=> (page.outcome = "no_rows")
            /\ page.outcome = "no_rows" =>
                  /\ page.download = <<>>
                  /\ \E i \in 1..Len(page.messages) :
                        page.messages[i] = "No transaction rows detected"
            /\ page.outcome = "download" =>
                  /\ page.df_display = parsed.rows
                  /\ csv_reader(page.download).records = <<ColumnNames>> \o RowFields(parsed.rows)

C10_Step ==
    (page'.upl # NoUpload /\ C7_Fingerprint(page'.upl) = C7_Fingerprint(cache_src)) =>
        /\ ~page'.extracted
        /\ page'.edited = IF page'.edit = NoEdit
                          THEN clean_csv_text(session_state.cached_csv)
                          ELSE page'.edit

\* C10: a render that reaches the edit area parses the current edited text with
\* the document's default year for the preview and the download, never the
\* cached rows; zero rows give a warning and no download; a later render of the
\* same upload takes the user's edit without running extraction again.
C10_EditReparse == []C10_Shown /\ [][C10_Step]_vars

C10_Witness ==
    /\ page.outcome = "download"
    /\ page.edit # NoEdit
    /\ ~page.extracted
    /\ page.df_display # session_state.cached_df
    /\ session_state.cached_df # <<>>

(***************************************************************************)
(* Inputs of the normalise_amount harness                                  *)
(***************************************************************************)
RECURSIVE SeqsUpTo(_, _)
SeqsUpTo(S, n) ==
    IF n = 0 THEN {<<>>}
    ELSE LET shorter == SeqsUpTo(S, n - 1)
         IN  shorter \cup { Append(s, c) : s \in shorter, c \in S }

Count(s, class) == Cardinality({ i \in 1..Len(s) : s[i] \in class })

\* numerals: digits, at most one decimal point, optional commas and '$'
Numerals ==
    { s \in SeqsUpTo({"1", "0", ".", ",", "$"}, MaxNumLen) :
        /\ Count(s, Digit) >= 1
        /\ Count(s, {"."}) <= 1 }

Pads == {<<>>, <<" ">>}

AmountForms == {"plain", "paren", "trailing"}

AmountArgs == [form : AmountForms, D : Numerals, lpad : Pads, rpad : Pads]

\* the text of an amount input
AmountText(a) ==
    CASE a.form = "plain"    -> a.lpad \o a.D \o a.rpad
      [] a.form = "paren"    -> a.lpad \o <<"(">> \o a.D \o <<")">> \o a.rpad
      [] a.form = "trailing" -> a.lpad \o a.D \o <<"-">> \o a.rpad

InitAmount ==
    /\ SessionStart
    /\ arg \in AmountArgs
    /\ ret = <<>>
    /\ op = "none"

ApplyNormaliseAmount ==
    /\ op = "none"
    /\ arg \in AmountArgs
    /\ ret' = normalise_amount(AmountText(arg))
    /\ op' = "normalise_amount"
    /\ UNCHANGED <<arg, svars>>

NextAmount == ApplyNormaliseAmount

SpecAmount == InitAmount /\ [][NextAmount]_vars

\* C2: for a numeral D, "(D)" and "D-" give "-" followed by D without commas
\* and '$', and D alone gives D without commas, '$' and surrounding whitespace.
Cleaned(D) == SelectSeq(D, LAMBDA c: c \notin {",", "$"})

C2_AmountForms ==
    (op = "normalise_amount") =>
        ret = IF arg.form = "plain" THEN Cleaned(arg.D)
              ELSE <<"-">> \o Cleaned(arg.D)

C2_Witness ==
    /\ op = "normalise_amount"
    /\ arg.form = "paren"
    /\ arg.D = <<"1", ",", "0">>
    /\ ret = <<"-", "1", "0">>

(***************************************************************************)
(* Inputs of the clean_csv_text harness                                    *)
(***************************************************************************)
MaxLines == 2       \* most lines of a text handed to clean_csv_text

\* lines of extractor output: blank lines, fences, stray quotes, commentary, data
CleanLines ==
    { <<>>,
      <<" ", " ">>,
      <<BQUOTE, BQUOTE, BQUOTE>>,
      <<BQUOTE, BQUOTE, BQUOTE, "c", "s", "v">>,
      <<" ", BQUOTE, BQUOTE, BQUOTE, " ", "C", "S", "V", " ">>,
      <<"'", "'", "'">>,
      <<"c", "s", "v">>,
      <<"\"">>,
      <<"u201C", "u201D">>,
      <<" ", " ", " ", " ", " ", " ", BQUOTE, BQUOTE, BQUOTE>>,
      <<BQUOTE, BQUOTE, "'", "\"", BQUOTE, "'">>,
      <<"\"", "\"", "\"", "\"", "\"", "\"", "\"", "\"", "\"">>,
      <<BQUOTE, BQUOTE, BQUOTE, "a">>,
      <<"H", "e", "r", "e", " ", "i", "s", " ", "x">>,
      <<"N", "O", "T", "E", ":", " ", "x">>,
      <<" ", "h", "e", "r", "e", " ", "\t", "i", "s">>,
      <<"h", "e", "r", "e", "i", "s">>,
      <<"h", "e", "r", "e">>,
      <<" ", "i", "s">>,
      <<"1", ",", "a", ",", "2">> }

RECURSIVE LineSeqsUpTo(_, _)
LineSeqsUpTo(S, n) ==
    IF n = 0 THEN {<<>>}
    ELSE LET shorter == LineSeqsUpTo(S, n - 1)
         IN  shorter \cup { Append(s, l) : s \in shorter, l \in S }

LineBreaks == {<<"\n">>, <<"\r", "\n">>, <<"\r">>}

\* lines: the lines of the text; sep: the line break between them;
\* last: TRUE when the last line is terminated too
CleanArgs ==
    [lines : LineSeqsUpTo(CleanLines, MaxLines), sep : LineBreaks, last : BOOLEAN]

CleanText(a) ==
    Join(a.lines, a.sep) \o (IF a.last /\ a.lines # <<>> THEN a.sep ELSE <<>>)

InitClean ==
    /\ SessionStart
    /\ arg \in CleanArgs
    /\ ret = <<>>
    /\ op = "none"

ApplyCleanCsvText ==
    /\ op = "none"
    /\ arg \in CleanArgs
    /\ ret' = clean_csv_text(CleanText(arg))
    /\ op' = "clean_csv_text"
    /\ UNCHANGED <<arg, svars>>

NextClean == ApplyCleanCsvText

SpecClean == InitClean /\ [][NextClean]_vars

\* C3: clean_csv_text is idempotent: cleaning its own output changes nothing.
C3_Idempotent ==
    (op = "clean_csv_text") => clean_csv_text(ret) = ret

C3_Witness ==
    /\ op = "clean_csv_text"
    /\ ret # <<>>
    /\ ret # CleanText(arg)
    /\ Len(arg.lines) = 2

StartsWith(s, lit) == Len(s) >= Len(lit) /\ SubSeq(s, 1, Len(lit)) = lit

EndsWith(s, lit) ==
    Len(s) >= Len(lit) /\ SubSeq(s, Len(s) - Len(lit) + 1, Len(s)) = lit

QuoteChars == {BQUOTE, "'", "\"", LDQUO, RDQUO, LSQUO, RSQUO}

\* the line without surrounding whitespace and without one trailing 'csv' token
FenceCore(l) ==
    LET t == Strip(l)
    IN  IF EndsWith(Lower(t), <<"c", "s", "v">>)
        THEN RStrip(SubSeq(t, 1, Len(t) - 3))
        ELSE t

\* the removal rule as C4 words it
C4_ClaimRemoves(l) ==
    \/ Strip(l) = <<>>
    \/ /\ Len(FenceCore(l)) >= 3
       /\ AllIn(FenceCore(l), 1, Len(FenceCore(l)), QuoteChars)
    \/ StartsWith(Lower(l), <<"h", "e", "r", "e", " ", "i", "s">>)
    \/ StartsWith(Lower(l), <<"n", "o", "t", "e", ":">>)

\* C4 as claimed: a line is removed iff it is blank, is fence/quote decoration
\* (three or more backticks or quotes, any whitespace around, optional csv), or
\* begins with 'here is' or 'note:'; the other lines pass unchanged, in order.
C4_Original ==
    (op = "clean_csv_text") =>
        ret = Join(SelectSeq(arg.lines, LAMBDA l: ~C4_ClaimRemoves(l)), <<"\n">>)

\* what is left of a line after its trailing whitespace and one optional
\* trailing 'csv' token (with the whitespace before it) are dropped
C4_Body(l) ==
    LET t == RStrip(l)
    IN  IF EndsWith(Lower(t), <<"c", "s", "v">>)
        THEN RStrip(SubSeq(t, 1, Len(t) - 3))
        ELSE t

C4_Decoration(u) ==
    \/ Len(u) <= 5 /\ AllIn(u, 1, Len(u), Space \cup QuoteChars)
    \/ \E p \in 0..5 :
          /\ p + 3 <= Len(u)
          /\ AllIn(u, 1, p, Space \cup QuoteChars)
          /\ u[Len(u)] \in {BQUOTE, "'", "\""}
          /\ \A i \in (p + 1)..Len(u) : u[i] = u[Len(u)]

C4_Commentary(l) ==
    LET t == Lower(LStrip(l))
    IN  \/ StartsWith(t, <<"n", "o", "t", "e", ":">>)
        \/ /\ StartsWith(t, <<"h", "e", "r", "e">>)
           /\ Len(t) > 4
           /\ t[5] \in Space
           /\ StartsWith(LStrip(SubSeq(t, 5, Len(t))), <<"i", "s">>)

C4_AmendedRemoves(l) ==
    Strip(l) = <<>> \/ C4_Decoration(C4_Body(l)) \/ C4_Commentary(l)

\* C4 amended: a line is removed iff it is blank, or, once trailing whitespace
\* and one optional trailing 'csv' are dropped, is at most five whitespace/quote
\* characters optionally followed by three or more identical backticks or
\* quotes, or begins after optional whitespace with 'here', whitespace, 'is' or
\* with 'note:'; the other lines pass unchanged, in order.
C4_Amended ==
    (op = "clean_csv_text") =>
        ret = Join(SelectSeq(arg.lines, LAMBDA l: ~C4_AmendedRemoves(l)), <<"\n">>)

C4_Witness ==
    /\ op = "clean_csv_text"
    /\ Len(arg.lines) = 2
    /\ arg.lines[1] = <<"c", "s", "v">>
    /\ arg.lines[2] = <<" ", " ", " ", " ", " ", " ", BQUOTE, BQUOTE, BQUOTE>>
    /\ ret = arg.lines[2]

(***************************************************************************)
(* Inputs of the robust_parse harness                                      *)
(***************************************************************************)
MaxCsvLines == 2    \* most lines of a text handed to robust_parse

\* lines of extractor output: fence, commentary, header echoes, well-formed
\* and malformed transaction lines
CsvLines ==
    { <<"u0060", "u0060", "u0060", "c", "s", "v">>,
      <<"H", "e", "r", "e", " ", "i", "s", " ", "t", "h", "e", " ", "C", "S", "V", ":">>,
      <<"D", "a", "t", "e", ",", "D", "e", "s", "c", "r", "i", "p", "t", "i", "o", "n", ",", "A", "m", "o", "u", "n", "t">>,
      <<" ", "D", "A", "T", "E", ",", "x", ",", "1">>,
      <<"A", "m", "o", "u", "n", "t", "s", ",", "a", ",", "1">>,
      <<"0", "3", "/", "0", "1", "/", "2", "0", "2", "3", ",", "G", "r", "o", "c", "e", "r", "y", " ", "S", "t", "o", "r", "e", ",", "-", "4", "5", ".", "2", "3">>,
      <<"0", "3", "/", "0", "2", "/", "2", "0", "2", "3", ",", "R", "e", "f", "u", "n", "d", ",", "(", "1", "0", ".", "0", "0", ")">>,
      <<"0", "1", "/", "0", "2", "/", "2", "0", "2", "3", ",", "C", "o", "f", "f", "e", "e", ",", " ", "T", "e", "a", ",", "4", ".", "5", "0">>,
      <<"0", "1", "/", "0", "4", "/", "2", "0", "2", "3", ",", "\"", "C", "o", "f", "f", "e", "e", ",", " ", "T", "e", "a", "\"", ",", "4", ".", "5", "0">>,
      <<"0", "1", "/", "0", "5", "/", "2", "0", "2", "3", ",", "R", "e", "n", "t", ",", "\"", "$", "1", ",", "0", "0", "0", ".", "0", "0", "\"">>,
      <<" ", "0", "3", "/", "1", "5", " ", ",", " ", "T", "e", "a", " ", ",", "3", ".", "0", "0", "-">>,
      <<"0", "3", "u2013", "1", "6", "u2013", "2", "0", "2", "3", ",", ",", "2">>,
      <<"(", "i", "n", "v", "a", "l", "i", "d", " ", "l", "i", "n", "e", ")">>,
      <<"0", "3", "/", "1", "7", ",", "T", "e", "a">>,
      <<"x", "x", ",", "T", "e", "a", ",", "3", ".", "0", "0">>,
      <<",", "T", "e", "a", ",", "1">>,
      <<"0", "3", "/", "0", "3", "/", "2", "0", "2", "3", ",", "F", "e", "e", ",", "5", ".", "0", "0", " ", "C", "R">>,
      <<"0", "3", "/", "0", "5", "/", "2", "0", "2", "3", ",", "\"", "T", "e", "a", ",", "1">> }

Years == {2023, 2024}

ParseArgs ==
    [lines : LineSeqsUpTo(CsvLines, MaxCsvLines), sep : {<<"\n">>, <<"\r", "\n">>},
     year : Years]

InitParse ==
    /\ SessionStart
    /\ arg \in ParseArgs
    /\ ret = <<>>
    /\ op = "none"

ApplyRobustParse ==
    /\ op = "none"
    /\ arg \in ParseArgs
    /\ ret' = robust_parse(Join(arg.lines, arg.sep), arg.year)
    /\ op' = "robust_parse"
    /\ UNCHANGED <<arg, svars>>

NextParse == ApplyRobustParse

SpecParse == InitParse /\ [][NextParse]_vars

\* digits, an optional leading '-', at most one decimal point
C1_AmountShape(a) ==
    LET body == IF a # <<>> /\ a[1] = "-" THEN Tail(a) ELSE a
    IN  /\ AllIn(body, 1, Len(body), Digit \cup {"."})
        /\ Count(body, {"."}) <= 1

\* C1: every row robust_parse returns has a non-empty Date and an Amount made
\* of digits, an optional leading '-' and at most one decimal point.
C1_RowInvariant ==
    (op = "robust_parse") =>
        \A k \in 1..Len(ret.rows) :
            /\ ret.rows[k].Date # <<>>
            /\ C1_AmountShape(ret.rows[k].Amount)

\* the records of the sanitised text, and those C5 says give a row
C5_Records == csv_reader(clean_csv_text(Join(arg.lines, arg.sep))).records

C5_Qualifies(rec) ==
    /\ rec # <<>>
    /\ ~ \E pre \in HEADER_PREFIXES : StartsWith(Lower(Strip(rec[1])), pre)
    /\ Len(rec) >= 3
    /\ normalise_date(rec[1], arg.year) # <<>>

C6_Fields(verbatim) ==
    (op = "robust_parse") =>
        LET q == SelectSeq(C5_Records, C5_Qualifies)
        IN  /\ Len(ret.rows) = Len(q)
            /\ \A k \in 1..Len(q) :
                  LET n == Len(q[k])
                      middle == Join(SubSeq(q[k], 2, n - 1), <<",">>)
                  IN  /\ ret.rows[k].Date = normalise_date(q[k][1], arg.year)
                      /\ ret.rows[k].Amount = normalise_amount(q[k][n])
                      /\ ret.rows[k].Description = IF verbatim THEN middle ELSE Strip(middle)
            /\ arg.lines = << <<"0", "1", "/", "0", "4", "/", "2", "0", "2", "3", ",", "\"", "C", "o", "f", "f", "e", "e", ",", " ", "T", "e", "a", "\"", ",", "4", ".", "5", "0">> >> =>
                  ret.rows = << [Date |-> <<"0", "1", "/", "0", "4", "/", "2", "0", "2", "3">>,
                                 Description |-> <<"C", "o", "f", "f", "e", "e", ",", " ", "T", "e", "a">>,
                                 Amount |-> <<"4", ".", "5", "0">>] >>

\* C6 as claimed: Date is normalise_date of field 0, Amount normalise_amount of
\* the last field, Description the fields between joined with commas, verbatim;
\* a comma inside a double-quoted field does not split it.
C6_Original == C6_Fields(TRUE)

\* C6 amended: as claimed, except that the joined description has its leading
\* and trailing whitespace removed.
C6_Amended == C6_Fields(FALSE)

C6_Witness ==
    /\ op = "robust_parse"
    /\ arg.lines = << <<"0", "1", "/", "0", "2", "/", "2", "0", "2", "3", ",", "C", "o", "f", "f", "e", "e", ",", " ", "T", "e", "a", ",", "4", ".", "5", "0">> >>
    /\ ret.rows = << [Date |-> <<"0", "1", "/", "0", "2", "/", "2", "0", "2", "3">>,
                      Description |-> <<"C", "o", "f", "f", "e", "e", ",", " ", "T", "e", "a">>,
                      Amount |-> <<"4", ".", "5", "0">>] >>
====
